---- MODULE Spec2Model ----
(***************************************************************************)
(* Model of the Aryn n8n node: Aryn.execute as found in                    *)
(* nodes/Aryn/Aryn.node.ts (hand-built multipart body, impl = "manual")    *)
(* and in the second copy of the node class that builds the request with   *)
(* the form-data package (impl = "formdata").                              *)
(*                                                                         *)
(* Strings and buffers are sequences of tokens.  A token is an ASCII       *)
(* string (each character is one byte), the character EAcute (one         *)
(* character, two UTF-8 bytes) or one raw byte (ByteC3, ByteA9).           *)
(***************************************************************************)
EXTENDS Integers, Sequences, FiniteSets, TLC

\* ------------------------------------------------------------------ bounds
MaxItems == 2
ClockStart == 9
MaxClockStep == 1

\* ------------------------------------------------------------------ tokens
CRLF == "\r\n"
Quote == "\""
Backslash == "\\"
Dash == "-"
EAcute == "<U+00E9>"
ByteC3 == "<0xC3>"
ByteA9 == "<0xA9>"
Undefined == <<"<undefined>">>

RawBytes == {ByteC3, ByteA9}

\* Buffer.length: the number of bytes of a buffer
RECURSIVE ByteLength(_)
ByteLength(buf) ==
    IF buf = <<>> THEN 0
    ELSE IF Len(buf) = 1 THEN (IF buf[1] \in RawBytes THEN 1 ELSE Len(buf[1]))
    ELSE ByteLength(SubSeq(buf, 1, Len(buf) \div 2))
         + ByteLength(SubSeq(buf, Len(buf) \div 2 + 1, Len(buf)))

\* Buffer.from(str, 'utf8')
RECURSIVE BufferFromUtf8(_)
BufferFromUtf8(str) ==
    IF str = <<>> THEN <<>>
    ELSE IF Len(str) = 1 THEN (IF str[1] = EAcute THEN <<ByteC3, ByteA9>> ELSE str)
    ELSE BufferFromUtf8(SubSeq(str, 1, Len(str) \div 2))
         \o BufferFromUtf8(SubSeq(str, Len(str) \div 2 + 1, Len(str)))

\* Buffer.concat(chunks)
RECURSIVE BufferConcat(_)
BufferConcat(chunks) ==
    IF chunks = <<>> THEN <<>> ELSE Head(chunks) \o BufferConcat(Tail(chunks))

\* `${n}` for a non-negative integer: its decimal digits
DigitChars == <<"0", "1", "2", "3", "4", "5", "6", "7", "8", "9">>
RECURSIVE NumberToString(_)
NumberToString(n) ==
    IF n < 10 THEN <<DigitChars[n + 1]>>
    ELSE NumberToString(n \div 10) \o <<DigitChars[(n % 10) + 1]>>

\* does the token sequence pat occur in s at position p
OccursAt(pat, s, p) ==
    /\ p >= 1
    /\ p + Len(pat) - 1 <= Len(s)
    /\ SubSeq(s, p, p + Len(pat) - 1) = pat

Occurs(pat, s) == \E p \in 1..Len(s) : OccursAt(pat, s, p)

\* ---------------------------------------------------------- node parameters
Impls == {"manual", "formdata"}
Operations == {"parse"}
TextModes(im) ==
    IF im = "manual" THEN {"auto", "ocr_standard", "ocr_vision"}
    ELSE {"auto", "inline_fallback_to_ocr", "ocr_standard", "ocr_vision"}
TableModes == {"none", "standard", "vision"}
OutputFormats == {"json", "html", "markdown"}
Schemas ==
    { <<>>,
      <<"{}">>,
      <<"{", Quote, "a", Quote, ":", Quote, EAcute, Backslash, CRLF, Quote, "}">> }

VARIABLES
    impl,                      \* which copy of Aryn.execute runs
    items,                     \* this.getInputData()
    operation, textMode, tableMode, outputFormat,
    extractImages, summarizeImages, propertyExtractionSchema,
    continueOnFail,            \* this.continueOnFail()
    i,                         \* loop index (0-based, as in the source)
    pc,                        \* "loop", "awaiting", "returned", "thrown"
    returnData,
    clock,                     \* last value read from Date.now()
    requests,                  \* the requests handed to the HTTP helper, in order
    inFlight,                  \* item indices whose request has not completed
    outcome,                   \* per completed request: what the helper did
    thrown,                    \* the error execute rejected with
    result                     \* the value execute resolved with

vars == <<impl, items, operation, textMode, tableMode, outputFormat,
          extractImages, summarizeImages, propertyExtractionSchema,
          continueOnFail, i, pc, returnData, clock, requests, inFlight,
          outcome, thrown, result>>

params == <<impl, items, operation, textMode, tableMode, outputFormat,
            extractImages, summarizeImages, propertyExtractionSchema,
            continueOnFail>>

NoError == [source |-> "none"]

\* ------------------------------------------------------------ input items
\* binary: "missing"   the item has no binary property of that name
\*         "memory"    the bytes are held in the item (binaryData.data)
\*         "stored"    the bytes are held by the binary-data store (binaryData.id)
\*         "lost"      binaryData.id names an object the store cannot read
Item(binary, fileName, mimeType, bytes) ==
    [binary |-> binary, fileName |-> fileName, mimeType |-> mimeType, bytes |-> bytes]

PlainItem == Item("memory", <<"a">>, <<"text/plain">>, <<"a">>)
BareItem == Item("stored", Undefined, Undefined, <<>>)
MissingItem == Item("missing", Undefined, Undefined, <<>>)
LostItem == Item("lost", <<"a">>, Undefined, <<>>)

RunItems == {PlainItem, BareItem, MissingItem, LostItem}

RECURSIVE SeqsUpTo(_, _)
SeqsUpTo(S, n) ==
    IF n = 0 THEN {<<>>}
    ELSE LET shorter == SeqsUpTo(S, n - 1)
         IN  shorter \cup {Append(s, x) : s \in {t \in shorter : Len(t) = n - 1}, x \in S}

\* ----------------------------------------------------- request options map
\* optionsObj of Aryn.node.ts
OptionsObjManual ==
    LET base == [text_mode |-> textMode,
                 output_format |-> outputFormat,
                 extract_images |-> extractImages,
                 summarize_images |-> summarizeImages]
        withTable == IF tableMode # "none"
                     THEN base @@ ("table_mode" :> tableMode)
                     ELSE base
    IN  IF propertyExtractionSchema # <<>>
        THEN withTable @@ ("property_extraction_options" :> [schema |-> propertyExtractionSchema])
        ELSE withTable

\* the object literal { text_mode: textMode } of the form-data copy
OptionsObjFormData == [text_mode |-> textMode]

OptionsObj == IF impl = "manual" THEN OptionsObjManual ELSE OptionsObjFormData

\* JSON.stringify of a string: quotes, backslashes and control characters escaped
RECURSIVE JSONEscape(_)
JSONEscape(str) ==
    IF str = <<>> THEN <<>>
    ELSE IF Len(str) = 1
         THEN CASE str[1] = Quote -> <<Backslash, Quote>>
                [] str[1] = Backslash -> <<Backslash, Backslash>>
                [] str[1] = CRLF -> <<Backslash, "r", Backslash, "n">>
                [] OTHER -> str
    ELSE JSONEscape(SubSeq(str, 1, Len(str) \div 2))
         \o JSONEscape(SubSeq(str, Len(str) \div 2 + 1, Len(str)))

JSONString(str) == <<Quote>> \o JSONEscape(str) \o <<Quote>>

\* insertion order of the keys of optionsObj
KeyOrder == <<"text_mode", "output_format", "extract_images", "summarize_images",
              "table_mode", "property_extraction_options">>

JSONValue(key, v) ==
    CASE key \in {"extract_images", "summarize_images"} ->
            <<IF v THEN "true" ELSE "false">>
      [] key = "property_extraction_options" ->
            <<"{">> \o JSONString(<<"schema">>) \o <<":">> \o JSONString(v.schema) \o <<"}">>
      [] OTHER -> JSONString(<<v>>)

RECURSIVE JSONMembers(_, _, _)
JSONMembers(obj, keys, first) ==
    IF keys = <<>> THEN <<>>
    ELSE IF Head(keys) \in DOMAIN obj
         THEN (IF first THEN <<>> ELSE <<",">>)
              \o JSONString(<<Head(keys)>>) \o <<":">> \o JSONValue(Head(keys), obj[Head(keys)])
              \o JSONMembers(obj, Tail(keys), FALSE)
         ELSE JSONMembers(obj, Tail(keys), first)

\* JSON.stringify(optionsObj)
JSONStringify(obj) == <<"{">> \o JSONMembers(obj, KeyOrder, TRUE) \o <<"}">>

\* ------------------------------------------------------- multipart builder
BoundaryPrefix == <<Dash, Dash, Dash, Dash, "n8nFormBoundary">>

\* `----n8nFormBoundary${Date.now()}`
Boundary(now) == BoundaryPrefix \o NumberToString(now)

FileName(item) == IF item.fileName = Undefined THEN <<"file">> ELSE item.fileName
MimeType(item) == IF item.mimeType = Undefined THEN <<"application/octet-stream">> ELSE item.mimeType

CDFile == "Content-Disposition: form-data; name=\"file\"; filename=\""
CDOptions == "Content-Disposition: form-data; name=\"options\""
CTHeader == "Content-Type: "

Preamble(boundary, fileName, mimeType) ==
    <<Dash, Dash>> \o boundary \o <<CRLF>>
    \o <<CDFile>> \o fileName \o <<Quote, CRLF>>
    \o <<CTHeader>> \o mimeType \o <<CRLF, CRLF>>

OptionsPart(boundary, optionStr) ==
    <<CRLF, Dash, Dash>> \o boundary \o <<CRLF>>
    \o <<CDOptions, CRLF>>
    \o <<CTHeader, "text/plain", CRLF, CRLF>>
    \o optionStr

Closing(boundary) == <<CRLF, Dash, Dash>> \o boundary \o <<Dash, Dash, CRLF>>

BodyBuffer(boundary, item, optionStr) ==
    BufferConcat(<< BufferFromUtf8(Preamble(boundary, FileName(item), MimeType(item))),
                    item.bytes,
                    BufferFromUtf8(OptionsPart(boundary, optionStr)),
                    BufferFromUtf8(Closing(boundary)) >>)

\* bodyBuffer.toString().length: the UTF-16 length of the body read as text
TextLength(buf) ==
    ByteLength(buf)
    - Cardinality({p \in 1..(Len(buf) - 1) : buf[p] = ByteC3 /\ buf[p + 1] = ByteA9})

\* variant: Content-Length taken from the body as a string, not as bytes
ContentLengthOfText(bodyBuffer) == TextLength(bodyBuffer)

\* the 'Content-Length' header: bodyBuffer.length
ContentLength(bodyBuffer) == ByteLength(bodyBuffer)

\* the IHttpRequestOptions handed to httpRequestWithAuthentication
ManualRequest(idx, item, now) ==
    LET boundary == Boundary(now)
        optionStr == JSONStringify(OptionsObj)
        bodyBuffer == BodyBuffer(boundary, item, optionStr)
    IN  [impl |-> "manual", item |-> idx,
         optionsObj |-> OptionsObj, optionStr |-> optionStr,
         boundary |-> boundary, body |-> bodyBuffer,
         contentLength |-> ContentLength(bodyBuffer)]

\* the FormData handed to httpRequestWithAuthentication by the form-data copy
FormDataRequest(idx, item) ==
    [impl |-> "formdata", item |-> idx,
     optionsObj |-> OptionsObj, optionStr |-> JSONStringify(OptionsObj),
     filename |-> item.fileName, contentType |-> item.mimeType, file |-> item.bytes]

\* --------------------------------------------------- the HTTP helper's answers
\* parsed JSON bodies of successful responses
Responses ==
    { [status |-> 200, status_code |-> 200, page_count |-> 3, elements |-> "E1"],
      [status |-> 200, elements |-> "E2", error |-> "none"],
      [elements |-> "E3"] }

\* messages of the errors the helper rejects with
ErrorMessages == {"timeout", "Request failed with status code 500"}

StrippedKeys == {"status", "status_code", "page_count"}

\* delete responseData.status; delete responseData.status_code; delete responseData.page_count
DeleteKeys(responseData) ==
    [k \in (DOMAIN responseData) \ StrippedKeys |-> responseData[k]]

\* what the try block pushes for a response
SuccessRecord(responseData) ==
    IF impl = "manual" THEN DeleteKeys(responseData) ELSE responseData

\* variant: the error record carries a fixed text instead of error.message
ErrorRecordFixedText(message) == [json |-> [error |-> "error"]]

\* { json: { error: error.message } }
ErrorRecord(message) == [json |-> [error |-> message]]

\* variant: the error is built with itemIndex 0 instead of i
OperationErrorFirstItem(message, idx) ==
    [source |-> "httpRequest", message |-> message, itemIndex |-> 0]

\* new NodeOperationError(this.getNode(), error, { itemIndex: i })
OperationError(message, idx) ==
    [source |-> "httpRequest", message |-> message, itemIndex |-> idx]

\* this.helpers.returnJsonArray: wrap every record that has no json key
ReturnJsonArray(data) ==
    [k \in 1..Len(data) |->
        IF "json" \in DOMAIN data[k] THEN data[k] ELSE [json |-> data[k]]]

\* ------------------------------------------------------------------- Init
\* the state on entry to the for loop, the parameters read
InitWith(implSet, itemSeqs, textModes, tableModes, outputFormats, flags, schemas) ==
    /\ impl \in implSet
    /\ items \in itemSeqs
    /\ operation \in Operations
    /\ textMode \in (textModes \cap TextModes(impl))
    /\ tableMode \in tableModes
    /\ outputFormat \in outputFormats
    /\ extractImages \in flags
    /\ summarizeImages \in flags
    /\ propertyExtractionSchema \in schemas
    /\ continueOnFail \in BOOLEAN
    /\ i = 0
    /\ pc = "loop"
    /\ returnData = <<>>
    /\ clock = ClockStart
    /\ requests = <<>>
    /\ inFlight = {}
    /\ outcome = <<>>
    /\ thrown = NoError
    /\ result = <<>>

Init ==
    InitWith(Impls, SeqsUpTo(RunItems, MaxItems), {"auto"}, {"none", "vision"},
             {"json"}, {FALSE}, {<<>>, <<"{}">>})

\* every combination of the option parameters, one or two plain items
OptionItems == {<<>>, <<PlainItem>>, <<PlainItem, BareItem>>, <<MissingItem>>, <<LostItem>>}

InitOptions ==
    InitWith(Impls, OptionItems, TextModes("manual") \cup TextModes("formdata"),
             TableModes, OutputFormats, BOOLEAN, Schemas)

\* single items with file names, mime types and file bytes of every shape
FileNames ==
    { Undefined, <<"a.pdf">>, <<EAcute, ".pdf">>, <<"a", Quote, "b">>, <<"a", CRLF, "b">> }
MimeTypes == { Undefined, <<"application/pdf">> }
Payloads ==
    { <<>>,
      <<"a", ByteC3, CRLF>>,
      <<"a", CRLF, Dash, Dash, "b">>,
      <<"a", CRLF, Dash, Dash>> \o Boundary(ClockStart) \o <<CRLF, "b">>,
      <<"a", CRLF, Dash, Dash>> \o Boundary(ClockStart) \o <<Dash, Dash, CRLF>> }

BodyItems ==
    {<<Item(b, f, m, d)>> : b \in {"memory", "stored"}, f \in FileNames,
                            m \in MimeTypes, d \in Payloads}
    \cup {<<MissingItem>>, <<LostItem>>}

InitBody ==
    InitWith(Impls, BodyItems, {"auto"}, {"none"}, {"json"}, {FALSE}, Schemas)

\* ---------------------------------------------------------------- actions
\* variant: the binary is read inside the try block, so continue-on-failure catches it
BinaryFailsCaught ==
    /\ pc = "loop"
    /\ i < Len(items)
    /\ items[i + 1].binary \in {"missing", "lost"}
    /\ IF continueOnFail
       THEN /\ returnData' = Append(returnData, ErrorRecord("no binary data"))
            /\ i' = i + 1
            /\ UNCHANGED <<pc, thrown>>
       ELSE /\ pc' = "thrown"
            /\ thrown' = [source |-> "assertBinaryData", itemIndex |-> i]
            /\ UNCHANGED <<returnData, i>>
    /\ UNCHANGED <<params, clock, requests, inFlight, outcome, result>>

\* assertBinaryData / getBinaryDataBuffer throw: outside the try.  In the
\* form-data copy the read that can throw is getBinaryStream / binaryToBuffer,
\* also outside the try; thrown.source names the Aryn.node.ts helper for both.
BinaryFails ==
    /\ pc = "loop"
    /\ i < Len(items)
    /\ items[i + 1].binary \in {"missing", "lost"}
    /\ pc' = "thrown"
    /\ thrown' = [source |-> IF items[i + 1].binary = "missing"
                             THEN "assertBinaryData" ELSE "getBinaryDataBuffer",
                  itemIndex |-> i]
    /\ UNCHANGED <<params, i, returnData, clock, requests, inFlight, outcome, result>>

\* one loop iteration up to the await of httpRequestWithAuthentication
IssueRequest ==
    /\ pc = "loop"
    /\ i < Len(items)
    /\ items[i + 1].binary \in {"memory", "stored"}
    /\ operation = "parse"
    /\ \E step \in 0..MaxClockStep :
          /\ clock' = clock + step
          /\ requests' = Append(requests,
                                IF impl = "manual"
                                THEN ManualRequest(i, items[i + 1], clock + step)
                                ELSE FormDataRequest(i, items[i + 1]))
    /\ inFlight' = inFlight \cup {i}
    /\ pc' = "awaiting"
    /\ UNCHANGED <<params, i, returnData, outcome, thrown, result>>

\* variant: the record is put at the front of returnData (unshift for push)
RequestSucceedsUnshift ==
    /\ pc = "awaiting"
    /\ \E responseData \in Responses :
          /\ returnData' = <<SuccessRecord(responseData)>> \o returnData
          /\ outcome' = Append(outcome, [ok |-> TRUE, item |-> i, response |-> responseData])
    /\ inFlight' = inFlight \ {i}
    /\ i' = i + 1
    /\ pc' = "loop"
    /\ UNCHANGED <<params, clock, requests, thrown, result>>

\* the awaited request resolves: the rest of the try block
RequestSucceeds ==
    /\ pc = "awaiting"
    /\ \E responseData \in Responses :
          /\ returnData' = Append(returnData, SuccessRecord(responseData))
          /\ outcome' = Append(outcome, [ok |-> TRUE, item |-> i, response |-> responseData])
    /\ inFlight' = inFlight \ {i}
    /\ i' = i + 1
    /\ pc' = "loop"
    /\ UNCHANGED <<params, clock, requests, thrown, result>>

\* variant: after recording the error the same item is tried again (no i++)
RequestFailsRetry ==
    /\ pc = "awaiting"
    /\ \E message \in ErrorMessages :
          /\ outcome' = Append(outcome, [ok |-> FALSE, item |-> i, message |-> message])
          /\ IF continueOnFail
             THEN /\ returnData' = Append(returnData, ErrorRecord(message))
                  /\ pc' = "loop"
                  /\ UNCHANGED <<i, thrown>>
             ELSE /\ thrown' = OperationError(message, i)
                  /\ pc' = "thrown"
                  /\ UNCHANGED <<returnData, i>>
    /\ inFlight' = inFlight \ {i}
    /\ UNCHANGED <<params, clock, requests, result>>

\* the awaited request rejects: the catch block
RequestFails ==
    /\ pc = "awaiting"
    /\ \E message \in ErrorMessages :
          /\ outcome' = Append(outcome, [ok |-> FALSE, item |-> i, message |-> message])
          /\ IF continueOnFail
             THEN /\ returnData' = Append(returnData, ErrorRecord(message))
                  /\ i' = i + 1
                  /\ pc' = "loop"
                  /\ thrown' = thrown
             ELSE /\ thrown' = OperationError(message, i)
                  /\ pc' = "thrown"
                  /\ UNCHANGED <<returnData, i>>
    /\ inFlight' = inFlight \ {i}
    /\ UNCHANGED <<params, clock, requests, result>>

\* the loop is over: return [this.helpers.returnJsonArray(returnData)]
Return ==
    /\ pc = "loop"
    /\ i >= Len(items)
    /\ result' = ReturnJsonArray(returnData)
    /\ pc' = "returned"
    /\ UNCHANGED <<params, i, returnData, clock, requests, inFlight, outcome, thrown>>

Next ==
    \/ BinaryFails
    \/ IssueRequest
    \/ RequestSucceeds
    \/ RequestFails
    \/ Return

Spec == Init /\ [][Next]_vars

SpecOptions == InitOptions /\ [][Next]_vars

SpecBody == InitBody /\ [][Next]_vars

TypeOK ==
    /\ pc \in {"loop", "awaiting", "returned", "thrown"}
    /\ i \in 0..Len(items)
    /\ Len(returnData) <= Len(items)

\* ------------------------------------------------- reading a request back
\* What a receiver of the request sees: the body split at the delimiter lines of
\* the boundary named in the Content-Type header (RFC 2046, 5.1.1), and the keys
\* of the options JSON text.
SetMin(S) == CHOOSE n \in S : \A m \in S : n <= m

DashBoundary(boundary) == <<Dash, Dash>> \o boundary

\* the close delimiter is the dash-boundary followed by two more dashes
IsCloseAt(body, boundary, p) ==
    OccursAt(<<Dash, Dash>>, body, p + Len(DashBoundary(boundary)))

\* a delimiter line: the dash-boundary at the start of a line, then the end of the
\* line (a part follows) or two dashes (the body is over)
IsDelimiterAt(body, boundary, p) ==
    /\ OccursAt(DashBoundary(boundary), body, p)
    /\ (p = 1 \/ body[p - 1] = CRLF)
    /\ \/ OccursAt(<<CRLF>>, body, p + Len(DashBoundary(boundary)))
       \/ IsCloseAt(body, boundary, p)

\* the lines of a header block
RECURSIVE SplitLines(_)
SplitLines(block) ==
    LET ends == {h \in 1..Len(block) : block[h] = CRLF}
    IN  IF ends = {} THEN (IF block = <<>> THEN <<>> ELSE <<block>>)
        ELSE <<SubSeq(block, 1, SetMin(ends) - 1)>>
             \o SplitLines(SubSeq(block, SetMin(ends) + 1, Len(block)))

\* the text of a quoted parameter value: up to the closing quote
QuotedValue(rest) ==
    LET quotes == {q \in 1..Len(rest) : rest[q] = Quote}
    IN  IF quotes = {} THEN rest ELSE SubSeq(rest, 1, SetMin(quotes) - 1)

ParsePart(content) ==
    LET blanks == {h \in 1..(Len(content) - 1) : content[h] = CRLF /\ content[h + 1] = CRLF}
        headerBlock == IF blanks = {} THEN content ELSE SubSeq(content, 1, SetMin(blanks) - 1)
        payload == IF blanks = {} THEN <<>> ELSE SubSeq(content, SetMin(blanks) + 2, Len(content))
        lines == SplitLines(headerBlock)
        disp == {l \in 1..Len(lines) : lines[l] # <<>> /\ Head(lines[l]) \in {CDFile, CDOptions}}
        ctype == {l \in 1..Len(lines) : lines[l] # <<>> /\ Head(lines[l]) = CTHeader}
    IN  [name |-> IF disp = {} THEN "<none>"
                  ELSE IF Head(lines[SetMin(disp)]) = CDFile THEN "file" ELSE "options",
         filename |-> IF disp # {} /\ Head(lines[SetMin(disp)]) = CDFile
                      THEN QuotedValue(Tail(lines[SetMin(disp)]))
                      ELSE Undefined,
         contentType |-> IF ctype = {} THEN Undefined ELSE Tail(lines[SetMin(ctype)]),
         payload |-> payload]

Malformed == [name |-> "<malformed>", filename |-> Undefined,
              contentType |-> Undefined, payload |-> <<>>]

\* the parts that follow the delimiter line at p, up to the close delimiter
RECURSIVE PartsFrom(_, _, _)
PartsFrom(body, boundary, p) ==
    LET start == p + Len(DashBoundary(boundary)) + 1
        nexts == {n \in (start + 1)..Len(body) : IsDelimiterAt(body, boundary, n)}
    IN  IF nexts = {} THEN <<Malformed>>
        ELSE <<ParsePart(SubSeq(body, start, SetMin(nexts) - 2))>>
             \o (IF IsCloseAt(body, boundary, SetMin(nexts)) THEN <<>>
                 ELSE PartsFrom(body, boundary, SetMin(nexts)))

ParseMultipart(body, boundary) ==
    IF ~IsDelimiterAt(body, boundary, 1) THEN <<Malformed>>
    ELSE IF IsCloseAt(body, boundary, 1) THEN <<>>
    ELSE PartsFrom(body, boundary, 1)

\* the keys of the top-level object of a JSON text
RECURSIVE ScanKeys(_, _, _, _)
ScanKeys(text, p, depth, inString) ==
    IF p > Len(text) THEN {}
    ELSE IF inString
         THEN IF text[p] = Backslash THEN ScanKeys(text, p + 2, depth, TRUE)
              ELSE ScanKeys(text, p + 1, depth, text[p] # Quote)
         ELSE CASE text[p] = "{" -> ScanKeys(text, p + 1, depth + 1, FALSE)
                [] text[p] = "}" -> ScanKeys(text, p + 1, depth - 1, FALSE)
                [] text[p] = Quote ->
                     (IF depth = 1 /\ text[p - 1] \in {"{", ","} /\ p + 1 <= Len(text)
                      THEN {text[p + 1]} ELSE {})
                     \cup ScanKeys(text, p + 1, depth, TRUE)
                [] OTHER -> ScanKeys(text, p + 1, depth, FALSE)

TopLevelKeys(text) == ScanKeys(text, 1, 0, FALSE)

\* ------------------------------------------------------------- properties
BadBinary(k) == items[k].binary \in {"missing", "lost"}

\* C1: a run of execute that returns has produced exactly one output record per
\* input item, and the k-th output record is the result (the parsed response or
\* the error record) of the request made for the k-th input item.
C1_OneRecordPerItemInOrder ==
    pc = "returned" =>
        /\ Len(result) = Len(items)
        /\ Len(outcome) = Len(items)
        /\ \A k \in 1..Len(items) :
              /\ outcome[k].item = k - 1
              /\ IF outcome[k].ok
                 THEN result[k].json \in {outcome[k].response, DeleteKeys(outcome[k].response)}
                 ELSE result[k].json = [error |-> outcome[k].message]

C1_Witness ==
    /\ pc = "returned"
    /\ Len(items) >= 2
    /\ outcome[1].ok
    /\ ~outcome[2].ok

\* C2: with continue-on-failure enabled, a failed request for item k leaves exactly
\* one record { error: <the error's message> } at item k's position of the output,
\* the run does not abort on it and the loop moves on to the items after k.
C2_FailureBecomesErrorRecord ==
    continueOnFail =>
        /\ thrown.source # "httpRequest"
        /\ Len(returnData) = Len(outcome)
        /\ \A k \in 1..Len(outcome) :
              ~outcome[k].ok =>
                 /\ returnData[k] = [json |-> [error |-> outcome[k].message]]
                 /\ i >= k
                 /\ pc \in {"loop", "awaiting", "returned"} \/ thrown.itemIndex >= k

C2_Witness ==
    /\ continueOnFail
    /\ pc = "returned"
    /\ Len(outcome) >= 2
    /\ ~outcome[1].ok
    /\ outcome[2].ok

\* C3: without continue-on-failure, a failed request for item k aborts the run
\* with an error that carries item index k: no request is made for a later item
\* and execute returns no output.
C3_FailureAbortsRun ==
    \A k \in 1..Len(outcome) :
        (~continueOnFail /\ ~outcome[k].ok) =>
            /\ pc = "thrown"
            /\ thrown.source = "httpRequest"
            /\ thrown.itemIndex = outcome[k].item
            /\ thrown.message = outcome[k].message
            /\ k = Len(outcome)
            /\ Len(requests) = k
            /\ requests[k].item = outcome[k].item
            /\ inFlight = {}
            /\ result = <<>>

C3_Witness ==
    /\ ~continueOnFail
    /\ pc = "thrown"
    /\ thrown.source = "httpRequest"
    /\ thrown.itemIndex = 1
    /\ Len(items) > 1

\* C4: an item whose binary attachment is missing or unreadable stops the run at
\* that item, with continue-on-failure or without: no record is emitted for the
\* item, no request is made for it or for a later item, and execute does not return.
C4_BadBinaryStopsRun ==
    \A k \in 1..Len(items) :
        BadBinary(k) =>
            /\ i <= k - 1
            /\ Len(returnData) <= k - 1
            /\ \A r \in 1..Len(requests) : requests[r].item < k - 1
            /\ pc # "returned"
            /\ (i = k - 1 /\ pc = "thrown") =>
                  /\ thrown.source \in {"assertBinaryData", "getBinaryDataBuffer"}
                  /\ thrown.itemIndex = k - 1

C4_Witness ==
    /\ continueOnFail
    /\ pc = "thrown"
    /\ thrown.source \in {"assertBinaryData", "getBinaryDataBuffer"}
    /\ thrown.itemIndex = 1
    /\ Len(returnData) = 1

\* C10: requests are made in increasing item order, at most one is in flight, a
\* request is made only after every earlier one has completed, and no item's
\* request is made twice.
C10_SequentialNoRetry ==
    /\ Cardinality(inFlight) <= 1
    /\ Len(requests) = Len(outcome) + Cardinality(inFlight)
    /\ \A a, b \in 1..Len(requests) : a < b => requests[a].item < requests[b].item
    /\ \A k \in 1..Len(outcome) : outcome[k].item = requests[k].item
    /\ \A x \in inFlight : /\ pc = "awaiting"
                           /\ x = requests[Len(requests)].item

C10_Witness ==
    /\ pc = "awaiting"
    /\ Len(requests) = 2
    /\ ~outcome[1].ok
    /\ inFlight = {1}

ManualRequests == {r \in 1..Len(requests) : requests[r].impl = "manual"}

\* C5: the record appended for a successful response is the parsed response
\* without the keys status, status_code and page_count, every other key kept with
\* its value.
C5_SuccessRecordStripped ==
    \A k \in 1..Len(outcome) :
        (outcome[k].ok /\ Len(returnData) >= k) =>
            /\ DOMAIN returnData[k] = (DOMAIN outcome[k].response) \ StrippedKeys
            /\ \A key \in DOMAIN returnData[k] : returnData[k][key] = outcome[k].response[key]

\* the same statement for the requests built by nodes/Aryn/Aryn.node.ts alone
StrippedByManual ==
    impl = "manual" => C5_SuccessRecordStripped

\* the options map the parameters call for
ExpectedOptionKeys ==
    {"text_mode", "output_format", "extract_images", "summarize_images"}
    \cup (IF tableMode # "none" THEN {"table_mode"} ELSE {})
    \cup (IF propertyExtractionSchema # <<>> THEN {"property_extraction_options"} ELSE {})

OptionsAsExpected(r) ==
    /\ DOMAIN r.optionsObj = ExpectedOptionKeys
    /\ TopLevelKeys(r.optionStr) = ExpectedOptionKeys
    /\ r.optionsObj["text_mode"] = textMode
    /\ r.optionsObj["output_format"] = outputFormat
    /\ r.optionsObj["extract_images"] = extractImages
    /\ r.optionsObj["summarize_images"] = summarizeImages
    /\ tableMode # "none" => r.optionsObj["table_mode"] = tableMode
    /\ propertyExtractionSchema # <<>> =>
          r.optionsObj["property_extraction_options"] = [schema |-> propertyExtractionSchema]

\* C6: the options map serialized into every request has the keys text_mode,
\* output_format, extract_images and summarize_images, table_mode exactly when
\* tableMode is not "none", property_extraction_options exactly when the schema
\* is a non-empty string (schema being that string), and no other key; every
\* request of a run carries the same map.
C6_OptionsMapKeys ==
    /\ \A r \in 1..Len(requests) : OptionsAsExpected(requests[r])
    /\ \A a, b \in 1..Len(requests) : requests[a].optionStr = requests[b].optionStr

\* the same statement for the requests built by nodes/Aryn/Aryn.node.ts alone
OptionsByManual ==
    impl = "manual" => C6_OptionsMapKeys

\* the payload handed to the multipart builder for request r
PayloadPieces(r) ==
    LET item == items[requests[r].item + 1]
    IN  { item.bytes, BufferFromUtf8(FileName(item)), BufferFromUtf8(MimeType(item)),
          BufferFromUtf8(requests[r].optionStr) }

\* C7: no two requests of a run use the same boundary, and a request's boundary
\* does not occur in its file bytes, file name, mime type or options JSON.
C7_BoundaryUniqueAndAbsent ==
    /\ \A a, b \in ManualRequests : a # b => requests[a].boundary # requests[b].boundary
    /\ \A r \in ManualRequests : \A piece \in PayloadPieces(r) :
          ~Occurs(requests[r].boundary, piece)

\* what the body of request r is meant to carry
ExpectedParts(r) ==
    LET item == items[requests[r].item + 1]
    IN  << [name |-> "file",
            filename |-> BufferFromUtf8(FileName(item)),
            contentType |-> BufferFromUtf8(MimeType(item)),
            payload |-> item.bytes],
           [name |-> "options",
            filename |-> Undefined,
            contentType |-> <<"text/plain">>,
            payload |-> BufferFromUtf8(requests[r].optionStr)] >>

EndsWithClosing(body, boundary) ==
    LET closing == DashBoundary(boundary) \o <<Dash, Dash, CRLF>>
    IN  OccursAt(closing, body, Len(body) - Len(closing) + 1)

\* C8: the body of every request splits at its boundary delimiter into exactly
\* two parts, the part "file" with the file name, the mime type and exactly the
\* input bytes, then the part "options" of type text/plain with exactly the
\* options JSON, and ends with the closing delimiter and CRLF.
C8_BodyParsesToTwoParts ==
    \A r \in ManualRequests :
        /\ ParseMultipart(requests[r].body, requests[r].boundary) = ExpectedParts(r)
        /\ EndsWithClosing(requests[r].body, requests[r].boundary)

\* inputs without a quote or line break in the names and without a delimiter
\* line in the file bytes
Benign(r) ==
    LET item == items[requests[r].item + 1]
    IN  /\ \A t \in 1..Len(FileName(item)) : FileName(item)[t] \notin {Quote, CRLF}
        /\ \A t \in 1..Len(MimeType(item)) : MimeType(item)[t] # CRLF
        /\ ~Occurs(<<CRLF>> \o DashBoundary(requests[r].boundary), item.bytes)

\* on those inputs the body does read back as the two parts
BenignBodyParses ==
    \A r \in ManualRequests :
        Benign(r) =>
            /\ ParseMultipart(requests[r].body, requests[r].boundary) = ExpectedParts(r)
            /\ EndsWithClosing(requests[r].body, requests[r].boundary)

\* C9: the Content-Length header of every request equals the byte length of the
\* body sent with it, the sum of the byte lengths of the file-part header, the
\* file bytes, the options part and the closing delimiter.
C9_ContentLengthIsBodyLength ==
    \A r \in ManualRequests :
        LET req == requests[r]
            item == items[req.item + 1]
        IN  /\ req.contentLength = ByteLength(req.body)
            /\ req.contentLength =
                  ByteLength(BufferFromUtf8(Preamble(req.boundary, FileName(item), MimeType(item))))
                  + ByteLength(item.bytes)
                  + ByteLength(BufferFromUtf8(OptionsPart(req.boundary, req.optionStr)))
                  + ByteLength(BufferFromUtf8(Closing(req.boundary)))

C9_Witness ==
    \E r \in ManualRequests :
        /\ items[requests[r].item + 1].fileName = <<EAcute, ".pdf">>
        /\ propertyExtractionSchema # <<>>
        /\ requests[r].contentLength > Len(requests[r].body)
====
